---- MODULE Spec2Model ----
(***************************************************************************)
(* Model of Python/server/yolo_detector.py: the Flask detection server.    *)
(* app.run(threaded=True) serves every request on its own thread; the      *)
(* threads share three module globals (camera_locks, latest_frames,        *)
(* unique_rock_ids).  One step of a thread is one statement of the handler *)
(* that reads or writes a global, or one call into cv2 / the YOLO engine;  *)
(* a single dict/set operation is atomic (one C call under the             *)
(* interpreter lock), a sequence of them is not.                           *)
(***************************************************************************)
EXTENDS Integers, Sequences, FiniteSets, TLC

\* ---- program constants --------------------------------------------------
MAX_CAMERAS == 5
\* random.randint(RandLow, RandHigh)
RandLow == 1000
RandHigh == 9999

\* ---- bounds of the model ------------------------------------------------
NumRequests == 2      \* POST /detect requests, each served on its own thread
MaxDet == 1           \* most boxes the engine returns for one image
NumProducers == 1     \* requests that run while a viewer stream is watched

Threads == 1..NumRequests
\* the threads that serve requests next to a viewer stream
Producers == {t \in Threads : t <= NumProducers}
ValidIds == 0..(MAX_CAMERAS - 1)
\* camera ids that requests and viewers use: the first and the last valid one
\* and the first that is out of range
CameraIds == {0, MAX_CAMERAS - 1, MAX_CAMERAS}
\* rock ids that random.randint draws in the model: both ends of its range
RockIds == {RandLow, RandHigh}
\* what the `file` field of a request may hold
Uploads == {"missing", "garbage", "image"}

\* ---- Python values ------------------------------------------------------
None == <<"None">>
\* cv2.imencode('.jpg', ...) of the annotated image of request t: every
\* request uploads an image of its own, so the bytes name the request
imencode(t) == <<"jpg", t>>
\* the black "Waiting for Stream..." image, encoded: image 0 is the one the
\* server draws itself, no request uploads it
Placeholder == <<"jpg", 0>>
\* truth value of `if frame_bytes:` -- None and empty bytes are falsy
Truthy(b) == b # None /\ b # <<>>

\* dict.get(k, default)
dict_get(d, k, default) == IF k \in DOMAIN d THEN d[k] ELSE default
\* d[k] = v : replaces the value, or creates the key
dict_set(d, k, v) == [x \in (DOMAIN d) \cup {k} |-> IF x = k THEN v ELSE d[x]]
\* (mutant of set_add) the set is rebound to the new id alone
set_add_Overwrite(s, x) == {x}

\* set.add(x)
set_add(s, x) == s \cup {x}

VARIABLES
    proc,             \* "loading" | "serving" | "exited"
    model,            \* global model: "unset" | "loaded"
    stats_response,   \* <<>> or <<n>>: total_rocks of the last GET /stats answered
    camera_locks,     \* dict camera id -> bool
    latest_frames,    \* dict camera id -> None | bytes
    unique_rock_ids,  \* set of ints
    pc,               \* per thread: position in detect()
    has_camera_id,    \* per thread: 'camera_id' in locals()
    camera_id,        \* per thread: local camera_id
    results,          \* per thread: number of boxes the engine returned
    detections,       \* per thread: local list, one rock id per box
    response,         \* per thread: None or the response of the last request
    v_pc,             \* viewer stream: "closed" | "fetch" | "emit"
    v_camera_id,      \* viewer stream: camera id of generate_frames
    frame_bytes,      \* viewer stream: local frame_bytes
    v_part,           \* viewer stream: body of the part this iteration yielded, or None
    v_write,          \* viewer stream: last write to the viewer: "none" | "ok" | "failed"
    lastPut,          \* history: per camera id, the last bytes a submit published
    recorded          \* history: every rock id passed to unique_rock_ids.add

ovars == <<model, stats_response>>
shared == <<camera_locks, latest_frames, unique_rock_ids>>
tvars == <<pc, has_camera_id, camera_id, results, detections, response>>
vvars == <<v_pc, v_camera_id, frame_bytes, v_part, v_write>>
hvars == <<lastPut, recorded>>
vars == <<proc, ovars, shared, tvars, vvars, hvars>>

Resp(status, code, n) == [status |-> status, code |-> code, rocks_found |-> n]

Init ==
    /\ proc = "loading"
    /\ model = "unset"
    /\ stats_response = <<>>
    /\ camera_locks = [i \in ValidIds |-> FALSE]
    /\ latest_frames = [i \in ValidIds |-> None]
    /\ unique_rock_ids = {}
    /\ pc = [t \in Threads |-> "idle"]
    /\ has_camera_id = [t \in Threads |-> FALSE]
    /\ camera_id = [t \in Threads |-> 0]
    /\ results = [t \in Threads |-> 0]
    /\ detections = [t \in Threads |-> <<>>]
    /\ response = [t \in Threads |-> None]
    /\ v_pc = "closed"
    /\ v_camera_id = 0
    /\ frame_bytes = None
    /\ v_part = None
    /\ v_write = "none"
    /\ lastPut = [i \in ValidIds \cup CameraIds |-> None]
    /\ recorded = {}

\* ---- process start: model = YOLO(MODEL_PATH) ---------------------------
LoadOk ==
    /\ proc = "loading"
    /\ proc' = "serving"
    /\ model' = "loaded"
    /\ UNCHANGED <<stats_response, shared, tvars, vvars, hvars>>

\* (mutant of LoadFail) the error is printed and the server starts anyway
LoadFail_Continues ==
    /\ proc = "loading"
    /\ proc' = "serving"
    /\ UNCHANGED <<ovars, shared, tvars, vvars, hvars>>

\* YOLO(MODEL_PATH) raises: the error is printed and exit() ends the process
LoadFail ==
    /\ proc = "loading"
    /\ proc' = "exited"
    /\ UNCHANGED <<ovars, shared, tvars, vvars, hvars>>

\* ---- POST /detect -------------------------------------------------------
\* A request arrives and a new thread calls detect().
NewRequest(t) ==
    /\ proc = "serving"
    /\ pc[t] = "idle"
    /\ UNCHANGED <<proc, ovars, shared, results, detections, response, vvars, hvars>>

\* camera_id = int(request.form.get('camera_id')) with an integer field
Begin(t, c) ==
    /\ NewRequest(t)
    /\ pc' = [pc EXCEPT ![t] = "check"]
    /\ has_camera_id' = [has_camera_id EXCEPT ![t] = TRUE]
    /\ camera_id' = [camera_id EXCEPT ![t] = c]

\* the field is missing or not an integer: int() raises, camera_id is never
\* bound
BeginBadId(t) ==
    /\ NewRequest(t)
    /\ pc' = [pc EXCEPT ![t] = "except"]
    /\ has_camera_id' = [has_camera_id EXCEPT ![t] = FALSE]
    /\ camera_id' = [camera_id EXCEPT ![t] = 0]

\* the handler returns `resp`: the call's lists are gone (camera_id is kept
\* as the channel the response belongs to)
Return(t, resp) ==
    /\ pc' = [pc EXCEPT ![t] = "done"]
    /\ response' = [response EXCEPT ![t] = resp]
    /\ results' = [results EXCEPT ![t] = 0]
    /\ detections' = [detections EXCEPT ![t] = <<>>]

\* (mutant of IsBusy) one flag for all channels
IsBusy_Any(locks, c) == \E k \in DOMAIN locks : locks[k]

\* the busy test of `if camera_locks.get(camera_id, False):`
IsBusy(locks, c) == dict_get(locks, c, FALSE)

\* (mutant of Check) the request waits for the flag instead of giving up
Check_Blocking(t) ==
    /\ pc[t] = "check"
    /\ ~IsBusy(camera_locks, camera_id[t])
    /\ pc' = [pc EXCEPT ![t] = "lock"]
    /\ UNCHANGED <<proc, ovars, shared, has_camera_id, camera_id, results,
                   detections, response, vvars, hvars>>

\* Frame dropping: the flag is read; if set the request returns 429 at once.
Check(t) ==
    /\ pc[t] = "check"
    /\ IF IsBusy(camera_locks, camera_id[t])
       THEN Return(t, Resp("dropped", 429, 0))
       ELSE /\ pc' = [pc EXCEPT ![t] = "lock"]
            /\ UNCHANGED <<response, results, detections>>
    /\ UNCHANGED <<proc, ovars, shared, has_camera_id, camera_id, vvars, hvars>>

\* camera_locks[camera_id] = True
Lock(t) ==
    /\ pc[t] = "lock"
    /\ camera_locks' = dict_set(camera_locks, camera_id[t], TRUE)
    /\ pc' = [pc EXCEPT ![t] = "read"]
    /\ UNCHANGED <<proc, ovars, latest_frames, unique_rock_ids, has_camera_id,
                   camera_id, results, detections, response, vvars, hvars>>

\* request.files['file'] (KeyError when absent), np.frombuffer, cv2.imdecode
\* (None for bytes that are not an image); f is what the request uploaded
ReadImage(t, f) ==
    /\ pc[t] = "read"
    /\ pc' = [pc EXCEPT ![t] =
                CASE f = "missing" -> "except"
                  [] f = "garbage" -> "badimg"
                  [] OTHER -> "predict"]
    /\ UNCHANGED <<proc, ovars, shared, has_camera_id, camera_id, results,
                   detections, response, vvars, hvars>>

\* (mutant of DecodeFail) the early return forgets the flag
DecodeFail_NoRelease(t) ==
    /\ pc[t] = "badimg"
    /\ Return(t, Resp("error", 400, 0))
    /\ UNCHANGED <<proc, ovars, shared, has_camera_id, camera_id, vvars, hvars>>

\* if img is None: release the flag and answer 400
DecodeFail(t) ==
    /\ pc[t] = "badimg"
    /\ camera_locks' = dict_set(camera_locks, camera_id[t], FALSE)
    /\ Return(t, Resp("error", 400, 0))
    /\ UNCHANGED <<proc, ovars, latest_frames, unique_rock_ids, has_camera_id,
                   camera_id, vvars, hvars>>

\* results = model.predict(...): the engine returns n boxes
PredictOk(t, n) ==
    /\ pc[t] = "predict"
    /\ model = "loaded"
    /\ results' = [results EXCEPT ![t] = n]
    /\ pc' = [pc EXCEPT ![t] = "boxes"]
    /\ UNCHANGED <<proc, ovars, shared, has_camera_id, camera_id, detections,
                   response, vvars, hvars>>

\* model.predict raises
PredictFail(t) ==
    /\ pc[t] = "predict"
    /\ pc' = [pc EXCEPT ![t] = "except"]
    /\ UNCHANGED <<proc, ovars, shared, has_camera_id, camera_id, results,
                   detections, response, vvars, hvars>>

\* one iteration of `for box in result.boxes`: draw an id, add it to the
\* global set, append the detection
RecordBox(t, rock_id) ==
    /\ pc[t] = "boxes"
    /\ Len(detections[t]) < results[t]
    /\ unique_rock_ids' = set_add(unique_rock_ids, rock_id)
    /\ recorded' = recorded \cup {rock_id}
    /\ detections' = [detections EXCEPT ![t] = Append(@, rock_id)]
    /\ UNCHANGED <<proc, ovars, camera_locks, latest_frames, pc, has_camera_id,
                   camera_id, results, response, vvars, lastPut>>

\* the loop is over; draw_boxes or cv2.imencode raises
EncodeFail(t) ==
    /\ pc[t] = "boxes"
    /\ Len(detections[t]) = results[t]
    /\ pc' = [pc EXCEPT ![t] = "except"]
    /\ results' = [results EXCEPT ![t] = 0]
    /\ detections' = [detections EXCEPT ![t] = <<>>]
    /\ UNCHANGED <<proc, ovars, shared, has_camera_id, camera_id, response, vvars,
                   hvars>>

\* (mutant of put) a slot that holds a frame is not overwritten
put_IfAbsent(frames, c, bytes) ==
    IF dict_get(frames, c, None) = None THEN dict_set(frames, c, bytes) ELSE frames

\* latest_frames[camera_id] = buffer.tobytes()
put(frames, c, bytes) == dict_set(frames, c, bytes)

\* the loop is over; draw_boxes and cv2.imencode succeed and the bytes are
\* stored
Publish(t) ==
    /\ pc[t] = "boxes"
    /\ Len(detections[t]) = results[t]
    /\ latest_frames' = put(latest_frames, camera_id[t], imencode(t))
    /\ lastPut' = [lastPut EXCEPT ![camera_id[t]] = imencode(t)]
    /\ pc' = [pc EXCEPT ![t] = "unlock"]
    /\ UNCHANGED <<proc, ovars, camera_locks, unique_rock_ids, has_camera_id,
                   camera_id, results, detections, response, vvars, recorded>>

\* (mutant of rocks_found) the running total is reported
rocks_found_Total(dets) == Cardinality(unique_rock_ids)

\* "rocks_found": len(detections)
rocks_found(dets) == Len(dets)

\* (mutant of Unlock) the slot is emptied when the request returns
Unlock_ClearsFrame(t) ==
    /\ pc[t] = "unlock"
    /\ camera_locks' = dict_set(camera_locks, camera_id[t], FALSE)
    /\ latest_frames' = dict_set(latest_frames, camera_id[t], None)
    /\ Return(t, Resp("success", 200, rocks_found(detections[t])))
    /\ UNCHANGED <<proc, ovars, unique_rock_ids, has_camera_id, camera_id,
                   vvars, hvars>>

\* camera_locks[camera_id] = False, then
\* return jsonify({"status": "success", "rocks_found": ...})
Unlock(t) ==
    /\ pc[t] = "unlock"
    /\ camera_locks' = dict_set(camera_locks, camera_id[t], FALSE)
    /\ Return(t, Resp("success", 200, rocks_found(detections[t])))
    /\ UNCHANGED <<proc, ovars, latest_frames, unique_rock_ids, has_camera_id,
                   camera_id, vvars, hvars>>

\* (mutant of Except) the handler also empties the identity set
Except_ClearsIds(t) ==
    /\ pc[t] = "except"
    /\ camera_locks' = IF has_camera_id[t]
                       THEN dict_set(camera_locks, camera_id[t], FALSE)
                       ELSE camera_locks
    /\ unique_rock_ids' = {}
    /\ Return(t, Resp("error", 500, 0))
    /\ UNCHANGED <<proc, ovars, latest_frames, has_camera_id, camera_id,
                   vvars, hvars>>

\* (mutant of Except) the handler answers 500 and leaves the flag set
Except_NoRelease(t) ==
    /\ pc[t] = "except"
    /\ Return(t, Resp("error", 500, 0))
    /\ UNCHANGED <<proc, ovars, shared, has_camera_id, camera_id, vvars, hvars>>

\* except Exception: release the flag when camera_id is bound, answer 500
Except(t) ==
    /\ pc[t] = "except"
    /\ camera_locks' = IF has_camera_id[t]
                       THEN dict_set(camera_locks, camera_id[t], FALSE)
                       ELSE camera_locks
    /\ Return(t, Resp("error", 500, 0))
    /\ UNCHANGED <<proc, ovars, latest_frames, unique_rock_ids, has_camera_id,
                   camera_id, vvars, hvars>>

\* ---- GET /video_feed/<int:camera_id> ------------------------------------
\* video_feed: a viewer connects and generate_frames(camera_id) starts
Connect(c) ==
    /\ proc = "serving"
    /\ v_pc = "closed"
    /\ v_pc' = "fetch"
    /\ v_camera_id' = c
    /\ frame_bytes' = None
    /\ v_part' = None
    /\ v_write' = "none"
    /\ UNCHANGED <<proc, ovars, shared, tvars, hvars>>

\* top of the loop: frame_bytes = latest_frames.get(camera_id)
Fetch ==
    /\ v_pc = "fetch"
    /\ frame_bytes' = dict_get(latest_frames, v_camera_id, None)
    /\ v_part' = None
    /\ v_pc' = "emit"
    /\ UNCHANGED <<proc, ovars, shared, tvars, v_camera_id, v_write, hvars>>

\* (mutant of PartBody) the placeholder is sent whatever was fetched
PartBody_Placeholder(fb) == Placeholder

\* the body of the part that one iteration yields
PartBody(fb) == IF Truthy(fb) THEN fb ELSE Placeholder

\* if frame_bytes: yield the frame, else yield the placeholder; the write
\* to the viewer succeeds and the loop goes round
Emit ==
    /\ v_pc = "emit"
    /\ v_part' = PartBody(frame_bytes)
    /\ v_write' = "ok"
    /\ v_pc' = "fetch"
    /\ UNCHANGED <<proc, ovars, shared, tvars, v_camera_id, frame_bytes, hvars>>

\* (mutant of Disconnect) the failed write is swallowed and the loop goes on
Disconnect_KeepsGoing ==
    /\ v_pc = "emit"
    /\ v_pc' = "fetch"
    /\ v_part' = None
    /\ v_write' = "failed"
    /\ UNCHANGED <<proc, ovars, shared, tvars, v_camera_id, frame_bytes, hvars>>

\* the write to the viewer fails: the generator is closed
Disconnect ==
    /\ v_pc = "emit"
    /\ v_pc' = "closed"
    /\ v_camera_id' = 0
    /\ frame_bytes' = None
    /\ v_part' = None
    /\ v_write' = "failed"
    /\ UNCHANGED <<proc, ovars, shared, tvars, hvars>>

\* ---- GET /stats ---------------------------------------------------------
\* (mutant of total_rocks) the channels that hold a frame are counted
total_rocks_Channels(ids) ==
    Cardinality({c \in DOMAIN latest_frames : latest_frames[c] # None})

\* len(unique_rock_ids)
total_rocks(ids) == Cardinality(ids)

\* stats(): return jsonify({"total_rocks": len(unique_rock_ids)})
Stats ==
    /\ proc = "serving"
    /\ stats_response' = <<total_rocks(unique_rock_ids)>>
    /\ UNCHANGED <<proc, model, shared, tvars, vvars, hvars>>

\* ---- specification ------------------------------------------------------
Detect(t) ==
    \/ \E c \in CameraIds : Begin(t, c)
    \/ BeginBadId(t)
    \/ Check(t)
    \/ Lock(t)
    \/ \E f \in Uploads : ReadImage(t, f)
    \/ DecodeFail(t)
    \/ \E n \in 0..MaxDet : PredictOk(t, n)
    \/ PredictFail(t)
    \/ \E rock_id \in RockIds : RecordBox(t, rock_id)
    \/ EncodeFail(t)
    \/ Publish(t)
    \/ Unlock(t)
    \/ Except(t)

Stream ==
    \/ \E c \in CameraIds : Connect(c)
    \/ Fetch
    \/ Emit
    \/ Disconnect

\* requests only: no viewer connects
NextDetect ==
    \/ LoadOk
    \/ LoadFail
    \/ \E t \in Threads : Detect(t)

SpecDetect == Init /\ [][NextDetect]_vars

\* the steps of a request that has begun: its thread is scheduled again and
\* again, and every call it makes (decode, engine, annotation, encoding)
\* comes back, with a result or with an exception
Run(t) ==
    \/ Check(t)
    \/ Lock(t)
    \/ \E f \in Uploads : ReadImage(t, f)
    \/ DecodeFail(t)
    \/ \E n \in 0..MaxDet : PredictOk(t, n)
    \/ PredictFail(t)
    \/ \E rock_id \in RockIds : RecordBox(t, rock_id)
    \/ EncodeFail(t)
    \/ Publish(t)
    \/ Unlock(t)
    \/ Except(t)

\* the channels of the requests that contend for a flag
BusyIds == {0}

\* requests that contend for the flag of one channel
NextBusy ==
    \/ LoadOk
    \/ LoadFail
    \/ \E t \in Threads :
          \/ \E c \in BusyIds : Begin(t, c)
          \/ BeginBadId(t)
          \/ Run(t)

\* every request thread is scheduled fairly; no request has to arrive
FairDetect ==
    /\ Init
    /\ [][NextBusy]_vars
    /\ \A t \in Threads : WF_vars(Run(t))

\* a viewer stream and the stats poll, and requests next to them
Next ==
    \/ LoadOk
    \/ LoadFail
    \/ \E t \in Producers : Detect(t)
    \/ Stream
    \/ Stats

Spec == Init /\ [][Next]_vars

\* ---- properties ---------------------------------------------------------
\* thread t serves a request whose camera_id is bound to c
OnChannel(t, c) == has_camera_id[t] /\ camera_id[t] = c

\* t is past the busy check and not yet at its release of the flag
InFlight(t) ==
    \/ pc[t] \in {"lock", "read", "badimg", "predict", "boxes", "unlock"}
    \/ pc[t] = "except" /\ has_camera_id[t]

\* t has set the flag of its channel and not yet released it
HoldsFlag(t) ==
    \/ pc[t] \in {"read", "badimg", "predict", "boxes", "unlock"}
    \/ pc[t] = "except" /\ has_camera_id[t]

\* t has stored its frame
Published(t) ==
    \/ pc[t] = "unlock"
    \/ pc[t] = "done" /\ response[t].status = "success"

\* t takes a step of detect()
StepOf(t) == <<pc[t], detections[t]>>' # <<pc[t], detections[t]>>

\* C1: at most one request per channel is past the busy check and not yet at
\* its release, in every reachable state.
C1_OneInFlightPerChannel ==
    \A c \in CameraIds :
        Cardinality({t \in Threads : InFlight(t) /\ OnChannel(t, c)}) <= 1

\* C2: a request whose camera_id is outside [0, MAX_CAMERAS) never calls the
\* engine, changes no flag, no frame slot and not the identity set (no key is
\* created either), and is answered 400.
C2_InvalidChannelRejected ==
    [][\A t \in Threads :
          (StepOf(t) /\ has_camera_id'[t] /\ camera_id'[t] \notin ValidIds)
          => /\ UNCHANGED shared
             /\ pc[t] # "predict"
             /\ (pc'[t] = "done" => response'[t] = Resp("error", 400, 0))]_vars

\* C3: a flag is set only while a request that set it has not yet released
\* it: every admitted request releases the flag on each of its ways out, so a
\* channel with no admitted request in progress is not busy.
C3_BusyReleasedOnEveryExit ==
    \A c \in DOMAIN camera_locks :
        camera_locks[c] => \E t \in Threads : HoldsFlag(t) /\ OnChannel(t, c)

\* a request that was admitted and then failed with an exception has
\* returned, and its channel is not busy
C3_Witness ==
    \E t \in Threads :
        /\ pc[t] = "done"
        /\ has_camera_id[t]
        /\ response[t].code = 500
        /\ ~camera_locks[camera_id[t]]

\* C4: a request that finds its channel busy can take its step at once, while
\* the request that holds the flag is still running; that step answers
\* "dropped" and changes no flag, no frame slot and not the identity set.
C4_DroppedAtOnce ==
    /\ [](\A t \in Threads : pc[t] = "check" => ENABLED Check(t))
    /\ [][\A t \in Threads :
            (pc[t] = "check" /\ StepOf(t)
                /\ dict_get(camera_locks, camera_id[t], FALSE))
            => /\ pc'[t] = "done"
               /\ response'[t] = Resp("dropped", 429, 0)
               /\ UNCHANGED shared]_vars

\* a request was dropped while the request holding the flag is still running
C4_Witness ==
    \E t, u \in Threads :
        /\ t # u
        /\ pc[t] = "done"
        /\ response[t].status = "dropped"
        /\ HoldsFlag(u)
        /\ OnChannel(u, camera_id[t])
        /\ camera_locks[camera_id[t]]

\* some request on channel c was admitted and then answered with an error
RejectedOn(c) ==
    \E u \in Threads :
        pc[u] = "done" /\ OnChannel(u, c) /\ response[u].status = "error"

\* no request other than t is in progress on channel c
AloneOn(t, c) ==
    \A u \in Threads \ {t} : OnChannel(u, c) => pc[u] \in {"idle", "done"}

\* C5: after a request on channel c was rejected (decode failure, engine
\* failure) the service is still up and the busy check of a later request on
\* c, with no other request on c in progress, admits it.
C5_FollowUpAdmitted ==
    [][\A t \in Threads :
          (pc[t] = "check" /\ StepOf(t)
              /\ RejectedOn(camera_id[t]) /\ AloneOn(t, camera_id[t]))
          => (pc'[t] = "lock" /\ proc' = "serving")]_vars

\* a request is at its busy check after an earlier request on its channel
\* was rejected, with nothing else in progress there
C5_Witness ==
    \E t \in Threads :
        /\ pc[t] = "check"
        /\ RejectedOn(camera_id[t])
        /\ AloneOn(t, camera_id[t])
        /\ ~dict_get(camera_locks, camera_id[t], FALSE)

\* C6: an accepted request reports as many rocks as the engine returned
\* boxes, and from the step before its flag is released its channel's slot
\* holds non-empty bytes that are not the placeholder.
C6_AcceptedCountAndFrame ==
    /\ [](\A t \in Threads :
            Published(t) =>
                /\ Truthy(dict_get(latest_frames, camera_id[t], None))
                /\ dict_get(latest_frames, camera_id[t], None) # Placeholder)
    /\ [][\A t \in Threads :
            (pc[t] = "unlock" /\ StepOf(t))
            => response'[t] = Resp("success", 200, results[t])]_vars

\* a request was accepted with at least one rock found
C6_Witness ==
    \E t \in Threads :
        /\ pc[t] = "done"
        /\ response[t].status = "success"
        /\ response[t].rocks_found >= 1
        /\ camera_id[t] \in ValidIds

\* C7: a channel on which nothing was published has an absent frame; the part
\* a stream iteration yields is the fetched frame when the fetch found one and
\* the placeholder when it found none, so no real frame is yielded on a
\* channel before the first publish on it.
C7_PlaceholderUntilPublished ==
    /\ \A c \in DOMAIN lastPut :
          lastPut[c] = None => dict_get(latest_frames, c, None) = None
    /\ v_part # None =>
          /\ frame_bytes # None => v_part = frame_bytes
          /\ frame_bytes = None => v_part = Placeholder
          /\ v_part # Placeholder => lastPut[v_camera_id] # None

\* a viewer was sent the placeholder on a channel that has no frame yet while
\* a request on that channel is running
C7_Witness ==
    /\ v_part = Placeholder
    /\ lastPut[v_camera_id] = None
    /\ \E t \in Threads : OnChannel(t, v_camera_id) /\ pc[t] = "boxes"

\* C8: the identity set holds every id that was ever recorded, whichever
\* requests recorded them and however they interleave: its size is the number
\* of distinct ids recorded.
C8_NoLostIds ==
    /\ unique_rock_ids = recorded
    /\ Cardinality(unique_rock_ids) = Cardinality(recorded)

\* two requests on different channels are both in their loop, each has
\* recorded an id, and the set holds two ids
C8_Witness ==
    \E t, u \in Threads :
        /\ pc[t] = "boxes" /\ pc[u] = "boxes"
        /\ has_camera_id[t] /\ has_camera_id[u]
        /\ camera_id[t] # camera_id[u]
        /\ Len(detections[t]) >= 1 /\ Len(detections[u]) >= 1
        /\ Cardinality(unique_rock_ids) = 2

\* C9: a step of a request on channel c leaves the flag and the slot of every
\* other channel as they are; a request whose own flag is clear is admitted
\* whatever the other flags are; and a request that has started can always
\* take its next step.
C9_ChannelsIndependent ==
    /\ [][\/ UNCHANGED <<camera_locks, latest_frames>>
          \/ \A t \in Threads : StepOf(t) =>
            /\ \A d \in (DOMAIN camera_locks) \ {camera_id'[t]} :
                  camera_locks'[d] = camera_locks[d]
            /\ \A d \in (DOMAIN latest_frames) \ {camera_id'[t]} :
                  latest_frames'[d] = latest_frames[d]
            /\ DOMAIN camera_locks' \subseteq (DOMAIN camera_locks) \cup {camera_id'[t]}
            /\ DOMAIN latest_frames' \subseteq (DOMAIN latest_frames) \cup {camera_id'[t]}]_vars
    /\ [][\A t \in Threads :
            (pc[t] = "check" /\ StepOf(t)
                /\ ~dict_get(camera_locks, camera_id[t], FALSE))
            => pc'[t] = "lock"]_vars
    /\ [](\A t \in Threads : pc[t] \notin {"idle", "done"} => ENABLED Detect(t))

\* two requests on different valid channels are inside the engine call
C9_Witness ==
    \E t, u \in Threads :
        /\ pc[t] = "predict" /\ pc[u] = "predict"
        /\ camera_id[t] # camera_id[u]
        /\ camera_id[t] \in ValidIds /\ camera_id[u] \in ValidIds

\* C10: every frame slot is absent or holds the bytes that the last publish
\* on that channel stored, and these are the whole output of one request on
\* that channel that reached its publish; so what a fetch of channel c reads
\* is absent or such a frame of channel c.
C10_SlotIsLastPublished ==
    \A c \in DOMAIN lastPut :
        LET fetched == dict_get(latest_frames, c, None) IN
        /\ fetched = lastPut[c]
        /\ fetched # None =>
              \E t \in Threads :
                  /\ fetched = imencode(t)
                  /\ OnChannel(t, c)
                  /\ Published(t)

\* two requests have published on one channel and its slot holds the frame
\* of the one that published last
C10_Witness ==
    \E t, u \in Threads :
        /\ t # u
        /\ Published(t) /\ Published(u)
        /\ camera_id[t] = camera_id[u]
        /\ pc[t] = "done" /\ pc[u] = "unlock"
        /\ latest_frames[camera_id[t]] = imencode(u)

\* C11: every finished request carries one of the four answers, chosen by
\* the cause: a request whose camera_id field is missing, is not an integer
\* or is outside [0, MAX_CAMERAS) is answered 400, never 500 and never 200.
C11_BadChannelAnswered400 ==
    \A t \in Threads :
        pc[t] = "done" =>
            /\ response[t].code \in {200, 429, 400, 500}
            /\ (~has_camera_id[t] \/ camera_id[t] \notin ValidIds)
                  => response[t].code = 400

C13_StreamEndsOnFailedWrite ==
    /\ v_write = "failed" => v_pc = "closed"
    /\ v_pc = "closed" =>
          /\ v_write \in {"none", "failed"}
          /\ ~ENABLED Fetch
          /\ ~ENABLED Emit
    /\ v_pc # "closed" =>
          /\ v_write \in {"none", "ok"}
          /\ ENABLED (Fetch \/ Emit)

\* a write to the viewer has failed and the stream is closed
C13_Witness ==
    /\ v_pc = "closed"
    /\ v_write = "failed"

C15_ServesOnlyAfterLoad ==
    /\ proc = "exited" =>
          /\ model = "unset"
          /\ ~ENABLED Next
    /\ (\/ \E t \in Threads : pc[t] # "idle"
        \/ v_pc # "closed"
        \/ v_write # "none"
        \/ stats_response # <<>>)
       => model = "loaded" /\ proc = "serving"

\* the engine failed to load: the process is gone and nothing was handled
C15_Witness ==
    /\ proc = "exited"
    /\ \A t \in Threads : pc[t] = "idle" /\ response[t] = None
    /\ v_pc = "closed"
    /\ stats_response = <<>>

\* C16: only an accepted request changes shared data: no frame slot holds
\* the frame of a request that was dropped or rejected, and while every
\* request so far was dropped or rejected every frame slot and the identity
\* set are as they were at the start.
C16_OnlyAcceptedChangesData ==
    /\ \A t \in Threads :
          (pc[t] = "done" /\ response[t].status # "success")
          => \A c \in DOMAIN latest_frames : latest_frames[c] # imencode(t)
    /\ (\A t \in Threads :
          \/ pc[t] = "idle"
          \/ pc[t] = "done" /\ response[t].status # "success")
       => /\ unique_rock_ids = {}
          /\ latest_frames = [i \in ValidIds |-> None]

C18_BusyEnds ==
    /\ \A t \in Threads : (pc[t] \notin {"idle", "done"}) ~> (pc[t] = "done")
    /\ \A c \in BusyIds :
          IsBusy(camera_locks, c) ~> ~IsBusy(camera_locks, c)

\* every request has returned, one of them accepted and one after an
\* exception on the same channel, and the channel is not busy
C18_Witness ==
    /\ \A t \in Threads : pc[t] = "done"
    /\ \E t, u \in Threads :
          /\ response[t].code = 200
          /\ response[u].code = 500 /\ has_camera_id[u]
          /\ camera_id[t] = camera_id[u]
          /\ ~IsBusy(camera_locks, camera_id[t])

====
